---- MODULE Spec2Model ----
(***************************************************************************)
(* Resume generation pipeline: POST /api/resume/generate                   *)
(* (backend/app/api/resume.py), the four agents it drives through          *)
(* BaseAgent.run (JD_Extractor, Resume_Generator, ATS_Scorer, Optimizer)   *)
(* and the services behind them (web_scraper, llm_service).                *)
(*                                                                         *)
(* One behaviour of Spec is one request; PairSpec has two in flight.       *)
(* Strings whose content the code only measures are kept as lengths: a     *)
(* text is [lead, core, trail], the count                                  *)
(* of leading whitespace, the length of what str.strip() keeps, and the    *)
(* count of trailing whitespace.  The network and the text generation      *)
(* provider are the environment: each call draws its outcome from a set.   *)
(***************************************************************************)
EXTENDS Integers, Sequences, FiniteSets, TLC

\* ---------------------------------------------------------------- bounds
MaxPad == 1        \* whitespace characters around a pasted text
MaxCalls == 7      \* cap on the number of calls of one stage in one run

\* ------------------------------------------------------ program constants
ATS_TARGET_SCORE == 85
MAX_OPTIMIZATION_ITERATIONS == 5
LoopFirst == 1
LoopStop == 6
MinJobTextLen == 20
DescriptionLimit == 1000
LinkedInMinLen == 50
GenericTextLimit == 5000
PlaceholderCoreLen == 412
DefaultScore == 50
ScoreFloor == 0
ScoreCeiling == 100
OptimizeResumeParams == 2
OptimizeResumeArgs == 3

Min(a, b) == IF a <= b THEN a ELSE b
Max(a, b) == IF a >= b THEN a ELSE b

\* ------------------------------------------------------------------ texts
\* src says where the characters come from; title and company are the job
\* title and organization the text spells out (the placeholder text only).
TextOf(s, l, c, t, ti, co) ==
    [src |-> s, lead |-> l, core |-> c, trail |-> t, title |-> ti, company |-> co]
Text(l, c, t) == TextOf("pasted", l, c, t, "", "")
EmptyText == TextOf("none", 0, 0, 0, "", "")
TextLen(t) == t.lead + t.core + t.trail
\* str.strip(): leading and trailing whitespace removed
Strip(t) == [t EXCEPT !.lead = 0, !.trail = 0]
\* text[:n]
Prefix(t, n) ==
    IF TextLen(t) <= n THEN t
    ELSE IF t.lead >= n THEN [t EXCEPT !.lead = n, !.core = 0, !.trail = 0]
    ELSE IF t.lead + t.core >= n THEN [t EXCEPT !.core = n - t.lead, !.trail = 0]
    ELSE [t EXCEPT !.trail = n - t.lead - t.core]

\* --------------------------------------------------------------- requests
\* A URL as the code looks at it: empty, whitespace only, or a URL with a
\* host and a path shape ("slug" is /jobs/view/<title>-at-<company>-<id>,
\* "id" is /jobs/view/<id>, "jk" carries a jk= query parameter).
Url(k, h, p) == [kind |-> k, host |-> h, path |-> p]
NoUrl == Url("empty", "", "")
BlankUrl == Url("blank", "", "")
Urls ==
    {NoUrl, BlankUrl,
     Url("url", "linkedin.com", "slug"), Url("url", "linkedin.com", "id"),
     Url("url", "indeed.com", "jk"), Url("url", "glassdoor.com", "other"),
     Url("url", "example.com", "other")}

PastedTexts ==
    {EmptyText, Text(MaxPad, 0, MaxPad),
     Text(MaxPad, MinJobTextLen - 1, MaxPad),
     Text(0, MinJobTextLen, 0), Text(MaxPad, MinJobTextLen, MaxPad)}

\* the title hint and the company hint of a request
Hints == {<<"", "">>, <<"HintTitle", "">>, <<"HintTitle", "HintCompany">>}

Requests ==
    {[job_url |-> u, job_description |-> t, job_title |-> h[1],
      company_name |-> h[2]] : u \in Urls, t \in PastedTexts, h \in Hints}

\* ------------------------------------------------------------ web scraper
\* What the network and the page give one fetch: an exception of the HTTP
\* client, a status other than 200, or a page whose cleaned description has
\* len characters and whose title/company selectors matched these strings.
FetchOutcome(k, n, ti, co) == [kind |-> k, len |-> n, title |-> ti, company |-> co]
ScrapedLens == {0, MinJobTextLen - 1, LinkedInMinLen - 1, LinkedInMinLen, 100}
FetchOutcomes ==
    {FetchOutcome("exception", 0, "", ""), FetchOutcome("status", 0, "", "")}
    \cup {FetchOutcome("page", n, "", "") : n \in ScrapedLens}
    \cup {FetchOutcome("page", n, "ScrapedTitle", "ScrapedCompany") :
              n \in {MinJobTextLen - 1, LinkedInMinLen}}

ScrapeResult(ok, txt, ti, co, s, e) ==
    [success |-> ok, job_text |-> txt, title |-> ti, company |-> co,
     source |-> s, error |-> e]
ScrapeFailure(e) == ScrapeResult(FALSE, EmptyText, "", "", "", e)
ScrapedText(n) == TextOf(IF n = 0 THEN "none" ELSE "scraped", 0, n, 0, "", "")

\* _parse_url_info: the dict read off the URL, none = TRUE for None.  A
\* field the dict lacks is "".
UrlInfo(nn, s, ti, co, id) ==
    [none |-> nn, source |-> s, title |-> ti, company |-> co, job_id |-> id]
\* a slip: every host gets an info dict
ParseUrlInfoAnyHost(url) ==
    UrlInfo(FALSE, "Job Board", IF url.path = "slug" THEN "UrlTitle" ELSE "",
            IF url.path = "slug" THEN "UrlCompany" ELSE "", "")
ParseUrlInfo(url) ==
    IF url.host = "linkedin.com" THEN
        UrlInfo(FALSE, "LinkedIn",
                IF url.path = "slug" THEN "UrlTitle" ELSE "",
                IF url.path = "slug" THEN "UrlCompany" ELSE "",
                IF url.path = "id" THEN "123456" ELSE "")
    ELSE IF url.host = "indeed.com" THEN
        UrlInfo(FALSE, "Indeed", "", "", IF url.path = "jk" THEN "jk1" ELSE "")
    ELSE IF url.host = "glassdoor.com" THEN
        UrlInfo(FALSE, "Glassdoor", "", "", "")
    ELSE UrlInfo(TRUE, "", "", "", "")

\* dict.get(key, default) on the dict of _parse_url_info
InfoGet(v, default) == IF v = "" THEN default ELSE v

\* a slip: the placeholder is written without what the URL gave
GeneratePlaceholderJdBlank(info) ==
    TextOf("placeholder", 0, PlaceholderCoreLen, 1, "Position", "Company")
\* _generate_placeholder_jd
GeneratePlaceholderJd(info) ==
    TextOf("placeholder", 0, PlaceholderCoreLen, 1,
           InfoGet(info.title, "Position"), InfoGet(info.company, "Company"))

FetchLinkedin(o) ==
    IF o.kind = "exception" THEN ScrapeFailure("connection")
    ELSE IF o.kind = "status" THEN ScrapeFailure("status")
    ELSE IF o.len < LinkedInMinLen THEN ScrapeFailure("no description")
    ELSE ScrapeResult(TRUE, ScrapedText(o.len), o.title, o.company, "linkedin", "")

\* a slip: the length test of _fetch_linkedin copied into _fetch_indeed
FetchIndeedChecked(o) ==
    IF o.kind = "exception" THEN ScrapeFailure("connection")
    ELSE IF o.kind = "status" THEN ScrapeFailure("status")
    ELSE IF o.len < LinkedInMinLen THEN ScrapeFailure("no description")
    ELSE ScrapeResult(TRUE, ScrapedText(o.len), o.title, o.company, "indeed", "")
FetchIndeed(o) ==
    IF o.kind = "exception" THEN ScrapeFailure("connection")
    ELSE IF o.kind = "status" THEN ScrapeFailure("status")
    ELSE ScrapeResult(o.len > 0, ScrapedText(o.len), o.title, o.company, "indeed", "")

FetchGlassdoor(o) ==
    IF o.kind = "exception" THEN ScrapeFailure("connection")
    ELSE IF o.kind = "status" THEN ScrapeFailure("status")
    ELSE ScrapeResult(o.len > 0, ScrapedText(o.len), "", "", "glassdoor", "")

FetchGeneric(o) ==
    IF o.kind = "exception" THEN ScrapeFailure("connection")
    ELSE IF o.kind = "status" THEN ScrapeFailure("status")
    ELSE ScrapeResult(o.len > 0, Prefix(ScrapedText(o.len), GenericTextLimit),
                      o.title, "", "generic", "")

\* fetch_job_from_url: the site fetch, then the URL-pattern fallback
FetchJobFromUrl(url, o) ==
    LET url_info == ParseUrlInfo(url)
        result == IF url.host = "linkedin.com" THEN FetchLinkedin(o)
                  ELSE IF url.host = "indeed.com" THEN FetchIndeed(o)
                  ELSE IF url.host = "glassdoor.com" THEN FetchGlassdoor(o)
                  ELSE FetchGeneric(o)
    IN  IF ~result.success /\ ~url_info.none
        THEN ScrapeResult(TRUE, GeneratePlaceholderJd(url_info),
                          url_info.title, url_info.company, "url_parsed", "")
        ELSE result

\* ------------------------------------------------------------------ dicts
\* A Python dict is a function from its keys (strings) to values.
EmptyDict == <<>>
HasKey(d, k) == k \in DOMAIN d
\* d.get(k, default)
Get(d, k, default) == IF k \in DOMAIN d THEN d[k] ELSE default
\* d[k] = v
Put(d, k, v) == [x \in DOMAIN d \cup {k} |-> IF x = k THEN v ELSE d[x]]

\* Keys of the dicts the provider is asked for, by the type of their values.
\* A message string is kept as the tuple of its parts.
StringKeys == {"job_title", "company_name", "experience_level", "raw_response"}
ListKeys ==
    {"requirements", "responsibilities", "skills_required", "preferred_skills",
     "keywords", "keyword_matches", "missing_keywords", "suggestions", "error"}
ScoreKeys == {"ats_score"}
TextKeys == {"job_description"}
\* Python truth of the value stored under key k
Truthy(k, v) ==
    IF k \in StringKeys THEN v # ""
    ELSE IF k \in ListKeys THEN v # <<>>
    ELSE IF k \in TextKeys THEN TextLen(v) > 0
    ELSE IF k \in ScoreKeys THEN ~v.numeric \/ v.n # 0
    ELSE TRUE

\* ------------------------------------------------------------- BaseAgent
\* What execute did: returned a dict, or raised an exception.
Returned(d) == [raised |-> FALSE, etype |-> "", msg |-> "", value |-> d]
Raised(t, m) == [raised |-> TRUE, etype |-> t, msg |-> m, value |-> EmptyDict]

\* except Exception: the exception classes the stages raise all derive from it
ExceptionClasses == {"ValueError", "TypeError", "Exception"}
\* a slip: except ValueError written for except Exception
CaughtOnlyValueError(etype) == etype = "ValueError"
CaughtByRun(etype) == etype \in ExceptionClasses

\* BaseAgent.run: escaped = TRUE when the exception leaves run, else result
\* is the dict run returns.
Run(agent_name, out) ==
    IF ~out.raised THEN
        [escaped |-> FALSE,
         result |-> Put(Put(Put(out.value, "agent_name", agent_name),
                            "execution_time", "elapsed"), "success", TRUE)]
    ELSE IF CaughtByRun(out.etype) THEN
        [escaped |-> FALSE,
         result |-> [agent_name |-> agent_name, success |-> FALSE,
                     error |-> out.msg, error_type |-> out.etype,
                     execution_time |-> "elapsed"]]
    ELSE [escaped |-> TRUE, result |-> EmptyDict]

\* result.get("success")
Succeeded(result) == Get(result, "success", FALSE)
\* a slip: the dict is tested, not its success flag
ExtractFailedIfEmpty(jd_result) == DOMAIN jd_result = {}
\* line 47: if not jd_result.get("success")
ExtractFailed(jd_result) == ~Succeeded(jd_result)
\* line 77: if not gen_result.get("success")
GenerateFailed(gen_result) == ~Succeeded(gen_result)

\* ------------------------------------------------------------ llm_service
\* One reply of the provider to extract_json: the API call fails, the reply
\* holds no parsable JSON, it parses to a JSON object (json = the dict), or
\* it parses to a JSON value that is no object (json = EmptyDict stands for it).
Reply(k, j) == [kind |-> k, json |-> j]

\* extract_json: dict = FALSE when json.loads gave a value that is no dict
ExtractJson(reply) ==
    IF reply.kind = "api_error"
    THEN [dict |-> TRUE, value |-> [error |-> <<"Failed to generate text">>]]
    ELSE IF reply.kind = "invalid_json"
    THEN [dict |-> TRUE,
          value |-> [error |-> <<"Failed to parse JSON">>, raw_response |-> "raw"]]
    ELSE IF reply.kind = "json_object"
    THEN [dict |-> TRUE, value |-> reply.json]
    ELSE [dict |-> FALSE, value |-> EmptyDict]

\* -------------------------------------------------------- JD_Extractor
LlmDescription == TextOf("llm", 0, 30, 0, "", "")
StructureReplies ==
    {Reply("api_error", EmptyDict), Reply("invalid_json", EmptyDict),
     Reply("json_other", EmptyDict),
     Reply("json_object",
           [job_title |-> "LlmTitle", company_name |-> "LlmCompany",
            job_description |-> LlmDescription,
            requirements |-> <<"req">>, responsibilities |-> <<"resp">>,
            skills_required |-> <<"Go", "SQL", "Docker">>,
            preferred_skills |-> <<"K8s">>, experience_level |-> "senior",
            keywords |-> <<"Go">>]),
     Reply("json_object",
           [job_title |-> "", job_description |-> EmptyText,
            skills_required |-> <<"Go", "SQL", "Docker">>, keywords |-> <<>>])}

\* a slip: raw_text[:0]
DefaultResultNoDescription(raw_text) ==
    [job_title |-> "Position", company_name |-> "Company",
     job_description |-> Prefix(raw_text, 0),
     requirements |-> <<>>, responsibilities |-> <<>>, skills_required |-> <<>>,
     preferred_skills |-> <<>>, experience_level |-> "mid", keywords |-> <<>>]
DefaultResult(raw_text) ==
    [job_title |-> "Position", company_name |-> "Company",
     job_description |-> Prefix(raw_text, DescriptionLimit),
     requirements |-> <<>>, responsibilities |-> <<>>, skills_required |-> <<>>,
     preferred_skills |-> <<>>, experience_level |-> "mid", keywords |-> <<>>]

\* a slip: the merge without the test "if value"
MergeAll(default, result) ==
    [k \in DOMAIN default \cup DOMAIN result |->
        IF k \in DOMAIN result THEN result[k] ELSE default[k]]
\* the merge loop of _structure_job_data
Merge(default, result) ==
    LET taken == {k \in DOMAIN result : Truthy(k, result[k])}
    IN  [k \in DOMAIN default \cup taken |->
            IF k \in taken THEN result[k] ELSE default[k]]

\* _structure_job_data
StructureJobData(raw_text, reply) ==
    LET result == ExtractJson(reply)
    IN  IF result.dict THEN Merge(DefaultResult(raw_text), result.value)
        ELSE DefaultResult(raw_text)

ErrNoJobDescription == <<"No job description available">>
ErrUrl(e) == <<"Could not extract job from URL", e>>

\* a slip: the URL is not stripped before it is tested
UrlGivenUnstripped(url) == url.kind # "empty"
\* job_url and job_url.strip()
UrlGiven(url) == url.kind # "empty" /\ url.kind # "blank"

\* a slip: the length is taken without strip()
TooShortUnstripped(job_text) == TextLen(job_text) < MinJobTextLen
\* not job_text or len(job_text.strip()) < 20
TooShort(job_text) == TextLen(job_text) = 0 \/ Strip(job_text).core < MinJobTextLen

\* a slip: what the scraper found is dropped
OrScrapedNever(given, scraped) == given
\* if not job_title: job_title = scrape_result.get("title", "")
OrScraped(given, scraped) == IF given = "" THEN scraped ELSE given

\* a slip: the hint is used only where the structuring found nothing
OverrideIfDefault(structured_data, key, value) ==
    IF value # "" /\ structured_data[key] \in {"Position", "Company"}
    THEN Put(structured_data, key, value) ELSE structured_data
\* if job_title: structured_data["job_title"] = job_title
Override(structured_data, key, value) ==
    IF value # "" THEN Put(structured_data, key, value) ELSE structured_data

\* no call of the scraper was made
NoScrape == ScrapeFailure("not called")

\* JDExtractorAgent.execute: what execute did (out), whether it called the
\* scraper (fetched) and what the scraper returned (scrape), the text it went
\* on with (job_text) and whether it called the structuring (structured).
JDExecute(input, fetch, reply) ==
    LET fetched == UrlGiven(input.job_url)
        scrape == FetchJobFromUrl(input.job_url, fetch)
        job_text == IF fetched /\ scrape.success THEN scrape.job_text
                    ELSE input.job_description_text
        job_title == IF fetched /\ scrape.success
                     THEN OrScraped(input.job_title, scrape.title)
                     ELSE input.job_title
        company_name == IF fetched /\ scrape.success
                        THEN OrScraped(input.company_name, scrape.company)
                        ELSE input.company_name
        structured == StructureJobData(job_text, reply)
        final == Override(Override(structured, "job_title", job_title),
                          "company_name", company_name)
    IN  IF fetched /\ ~scrape.success
        THEN [out |-> Raised("ValueError",
                             ErrUrl(InfoGet(scrape.error, "Failed to fetch URL"))),
              fetched |-> TRUE, scrape |-> scrape, job_text |-> job_text,
              structured |-> FALSE]
        ELSE IF TooShort(job_text)
        THEN [out |-> Raised("ValueError", ErrNoJobDescription),
              fetched |-> fetched,
              scrape |-> IF fetched THEN scrape ELSE NoScrape,
              job_text |-> job_text, structured |-> FALSE]
        ELSE [out |-> Returned(final), fetched |-> fetched,
              scrape |-> IF fetched THEN scrape ELSE NoScrape,
              job_text |-> job_text, structured |-> TRUE]

\* ----------------------------------------------------- Resume_Generator
\* The artifact: a LaTeX document.  doc says who wrote it, preamble whether
\* it starts with \documentclass, rev how many revisions it went through.
Artifact(d, pre, r) == [doc |-> d, preamble |-> pre, rev |-> r]
NoArtifact == Artifact("none", FALSE, 0)
TemplateArtifact == Artifact("template", TRUE, 0)

\* What the provider gives one generation or revision call: the API call
\* fails, the text lacks the preamble, or it is a document.  "prompt_fault"
\* is a profile or posting field of the wrong type, on which building the
\* prompt raises before the call is made.
GenOutcomes == {"prompt_fault", "api_error", "malformed", "valid"}

\* a slip: the text is returned without the test for \documentclass
GenerateResumeContentUnchecked(g) ==
    IF g = "valid" THEN Artifact("generated", TRUE, 0)
    ELSE IF g = "malformed" THEN Artifact("generated", FALSE, 0)
    ELSE TemplateArtifact
\* generate_resume_content
GenerateResumeContent(g) ==
    IF g = "valid" THEN Artifact("generated", TRUE, 0) ELSE TemplateArtifact

\* ResumeGeneratorAgent.execute
GeneratorExecute(input, g) ==
    IF DOMAIN input.job_data = {} \/ DOMAIN input.profile = {}
    THEN Raised("ValueError", <<"job_data and profile required">>)
    ELSE IF g = "prompt_fault"
    THEN Raised("TypeError", <<"prompt">>)
    ELSE Returned([resume_content |-> GenerateResumeContent(g), iteration |-> 1])

\* ------------------------------------------------------------ ATS_Scorer
ScoreVal(n) == [numeric |-> TRUE, n |-> n]
NonNumeric == [numeric |-> FALSE, n |-> 0]
ProviderScores == {-5, 60, ATS_TARGET_SCORE, 90, 120}
ScoreJson(v) ==
    [ats_score |-> v, keyword_matches |-> <<"Go">>,
     missing_keywords |-> <<"Docker">>, suggestions |-> <<"add Docker">>]
ScoreReplies ==
    {Reply("api_error", EmptyDict), Reply("invalid_json", EmptyDict),
     Reply("json_other", EmptyDict),
     Reply("json_object", [suggestions |-> <<"add Docker">>]),
     Reply("json_object", ScoreJson(NonNumeric))}
    \cup {Reply("json_object", ScoreJson(ScoreVal(n))) : n \in ProviderScores}
\* the replies drawn for the scorer call after the loop
FinalScoreReplies ==
    {Reply("api_error", EmptyDict), Reply("json_object", ScoreJson(NonNumeric)),
     Reply("json_object", ScoreJson(ScoreVal(60))),
     Reply("json_object", ScoreJson(ScoreVal(90)))}

\* a slip: min(100, score) without the max
ClampUpperOnly(n) == Min(ScoreCeiling, n)
\* max(0, min(100, score))
Clamp(n) == Max(ScoreFloor, Min(ScoreCeiling, n))

\* calculate_ats_score
CalculateAtsScore(reply) ==
    LET result == ExtractJson(reply)
    IN  IF ~result.dict THEN Raised("TypeError", <<"not a dict">>)
        ELSE IF HasKey(result.value, "ats_score")
        THEN IF result.value["ats_score"].numeric
             THEN Returned(Put(result.value, "ats_score",
                               Clamp(result.value["ats_score"].n)))
             ELSE Raised("TypeError", <<"not a number">>)
        ELSE Returned(Put(result.value, "ats_score", DefaultScore))

\* ATSScorerAgent.execute
ScorerExecute(input, reply) ==
    LET score_data == CalculateAtsScore(reply)
    IN  IF input.resume_content = NoArtifact \/ DOMAIN input.job_data = {}
        THEN Raised("ValueError", <<"resume_content and job_data required">>)
        ELSE IF score_data.raised THEN score_data
        ELSE Returned(
               [ats_score |-> Get(score_data.value, "ats_score", 0),
                keyword_matches |-> Get(score_data.value, "keyword_matches", <<>>),
                missing_keywords |-> Get(score_data.value, "missing_keywords", <<>>),
                suggestions |-> Get(score_data.value, "suggestions", <<>>)])

\* -------------------------------------------------------------- Optimizer
\* optimize_resume(self, current_resume, ats_feedback)
OptimizeResume(current_resume, g) ==
    IF g = "valid" THEN Artifact("generated", TRUE, current_resume.rev + 1)
    ELSE current_resume

\* A Python call binds when the positional arguments passed are as many as
\* the parameters declared (no defaults, no *args); else it raises TypeError.
CallBinds(passed, declared) == passed = declared

\* a slip: > written for >=
TargetReachedStrict(ats_score) == ats_score > ATS_TARGET_SCORE
\* ats_score >= self.target_score
TargetReached(ats_score) == ats_score >= ATS_TARGET_SCORE
\* iteration >= self.max_iterations
CapReached(iteration) == iteration >= MAX_OPTIMIZATION_ITERATIONS

\* OptimizerAgent.execute: what execute did (out) and whether it called
\* llm_service.optimize_resume (revised).
OptimizerExecute(input, g) ==
    LET stop == [should_continue |-> FALSE, final_resume |-> input.resume_content,
                 final_score |-> input.ats_score,
                 total_iterations |-> input.iteration]
        record == [iteration |-> input.iteration, score |-> input.ats_score,
                   changes |-> input.suggestions]
    IN  IF TargetReached(input.ats_score)
        THEN [out |-> Returned(stop), revised |-> FALSE]
        ELSE IF CapReached(input.iteration)
        THEN [out |-> Returned(Put(stop, "note", "Max iterations reached")),
              revised |-> FALSE]
        ELSE IF ~CallBinds(OptimizeResumeArgs, OptimizeResumeParams)
        THEN [out |-> Raised("TypeError", <<"optimize_resume() positional arguments">>),
              revised |-> TRUE]
        ELSE [out |-> Returned(
                  [should_continue |-> TRUE,
                   resume_content |-> OptimizeResume(input.resume_content, g),
                   iteration |-> input.iteration + 1,
                   optimization_history |->
                       Append(input.optimization_history, record)]),
              revised |-> TRUE]

\* ------------------------------------------------- POST /api/resume/generate
Stages == {"JD_Extractor", "Resume_Generator", "ATS_Scorer", "Optimizer"}
NoResume == [saved |-> FALSE]
NoError == [status |-> 0, detail |-> <<>>]
NoResult == EmptyDict
NoFetch == FetchOutcome("none", 0, "", "")
NoReply == Reply("none", EmptyDict)
NoExtraction ==
    [fetch |-> NoFetch, reply |-> NoReply, scrape |-> NoScrape,
     job_text |-> EmptyText]
\* no other request is in flight
NoFrame == [pc |-> "none"]
NoExec == [agent |-> "", out |-> Returned(EmptyDict), escaped |-> FALSE,
           result |-> EmptyDict]

VARIABLES
    pc,                    \* where generate_resume stands
    request,               \* the request body
    profile,               \* the profile row, EmptyDict before it is loaded
    job_data,              \* jd_result
    resume_content,        \* the artifact
    optimization_history,  \* the list of optimization records
    iteration,             \* the loop variable
    score_result,          \* the last in-loop result of the scorer
    final_score_result,    \* the result of the scorer after the loop
    http_error,            \* the HTTPException raised, NoError if none
    resume,                \* the Resume row saved, NoResume if none
    calls,                 \* per stage, how many times run was called
    failed,                \* the stages that returned success = False
    fetches,               \* calls of web_scraper.fetch_job_from_url
    structurings,          \* calls of _structure_job_data
    extraction,            \* the Extract stage: what the network and the provider
                           \* gave it, what the scraper returned, the text it used
    loop_scores,           \* per in-loop scorer call: iteration, artifact, the
                           \* provider's reply, result
    revisions,             \* the iterations at which optimize_resume was called
    revision_outcomes,     \* per call of optimize_resume: the Optimizer call it was
                           \* made in, the iteration, the artifact passed, what
                           \* the provider gave
    execution_history,     \* per agent (a module-level instance), its log
    current,               \* the request whose coroutine is running
    parked,                \* the frame of the request that is suspended
    stopped_at,            \* the iteration at which the loop was left, 0 before
    last                   \* the last call of BaseAgent.run: execute's outcome and run's

vars ==
    <<pc, request, profile, job_data, resume_content, optimization_history,
      iteration, score_result, final_score_result, http_error, resume, calls,
      failed, fetches, structurings, extraction, loop_scores, revisions,
      revision_outcomes, stopped_at, last, execution_history, current, parked>>

\* what the event loop holds besides the running coroutine
scheduler_vars == <<current, parked>>

run_vars ==
    <<request, profile, job_data, resume_content, optimization_history,
      iteration, score_result, final_score_result, http_error, resume>>

\* the handler is entered: its locals before the first statement
RunStart ==
    /\ pc = "start"
    /\ request \in Requests
    /\ profile = EmptyDict
    /\ job_data = NoResult
    /\ resume_content = NoArtifact
    /\ optimization_history = <<>>
    /\ iteration = 0
    /\ score_result = NoResult
    /\ final_score_result = NoResult
    /\ http_error = NoError
    /\ resume = NoResume
    /\ calls = [s \in Stages |-> 0]
    /\ failed = {}
    /\ fetches = 0
    /\ structurings = 0
    /\ extraction = NoExtraction
    /\ loop_scores = <<>>
    /\ revisions = {}
    /\ revision_outcomes = <<>>
    /\ stopped_at = 0
    /\ last = NoExec

\* one request in flight, the agents' logs empty
Init ==
    /\ RunStart
    /\ execution_history = [s \in Stages |-> <<>>]
    /\ current = 1
    /\ parked = NoFrame

\* a slip: the log is assigned, not appended to
LogExecutionOverwrite(history, status, run) == <<[status |-> status, run |-> run]>>
\* a slip: the entry is appended twice
LogExecutionTwice(history, status, run) ==
    history \o << [status |-> status, run |-> run], [status |-> status, run |-> run] >>
\* _log_execution: run is the request on whose behalf the entry is written
\* (the entry's data_summary)
LogExecution(history, status, run) ==
    Append(history, [status |-> status, run |-> run])

\* One call of agent.run, as the bookkeeping sees it.  A request that was
\* suspended in the fetch wrote its START entry before it was.
Called(agent, out, r) ==
    /\ calls[agent] < MaxCalls
    /\ execution_history' =
           [execution_history EXCEPT ![agent] =
               LET started == IF pc = "fetching" THEN @
                              ELSE LogExecution(@, "START", current)
               IN  IF r.escaped THEN started
                   ELSE LogExecution(started,
                                     IF r.result["success"] THEN "SUCCESS"
                                     ELSE "ERROR", current)]
    /\ calls' = [calls EXCEPT ![agent] = @ + 1]
    /\ failed' = IF ~r.escaped /\ ~r.result["success"] THEN failed \cup {agent}
                 ELSE failed
    /\ last' = [agent |-> agent, out |-> out, escaped |-> r.escaped,
                result |-> r.result]

\* An exception that leaves run leaves generate_resume too.
Crash ==
    /\ pc' = "crashed"
    /\ UNCHANGED run_vars

\* lines 31-35: the profile row is looked up, 404 without one
LoadProfile ==
    /\ pc = "start"
    /\ \E found \in BOOLEAN :
        IF found
        THEN /\ profile' = [full_name |-> "Name", skills |-> <<"Go">>]
             /\ pc' = "extract"
             /\ UNCHANGED http_error
        ELSE /\ http_error' = [status |-> 404, detail |-> <<"Profile not found">>]
             /\ pc' = "aborted"
             /\ UNCHANGED profile
    /\ UNCHANGED <<request, job_data, resume_content, optimization_history,
                   iteration, score_result, final_score_result, resume, calls,
                   failed, fetches, structurings, extraction, loop_scores,
                   revisions, revision_outcomes, stopped_at, last,
                   execution_history>>
    /\ UNCHANGED scheduler_vars

\* lines 38-43
JdInput ==
    [job_url |-> request.job_url, job_description_text |-> request.job_description,
     job_title |-> request.job_title, company_name |-> request.company_name]

\* line 45, up to the await of the fetch: run has logged START, execute has
\* found a URL and waits for the scraper
BeginFetch ==
    /\ pc = "extract"
    /\ UrlGiven(request.job_url)
    /\ pc' = "fetching"
    /\ execution_history' =
           [execution_history EXCEPT
               !["JD_Extractor"] = LogExecution(@, "START", current)]
    /\ UNCHANGED <<run_vars, calls, failed, fetches, structurings, extraction,
                   loop_scores, revisions, revision_outcomes, stopped_at, last>>
    /\ UNCHANGED scheduler_vars

\* lines 45-51: the Extract stage (the rest of it, after a fetch)
Extract ==
    /\ \/ pc = "extract" /\ ~UrlGiven(request.job_url)
       \/ pc = "fetching"
    /\ \E fetch \in FetchOutcomes, reply \in StructureReplies :
        LET ex == JDExecute(JdInput, fetch, reply)
            r == Run("JD_Extractor", ex.out)
        IN  /\ Called("JD_Extractor", ex.out, r)
            /\ fetches' = fetches + (IF ex.fetched THEN 1 ELSE 0)
            /\ structurings' = structurings + (IF ex.structured THEN 1 ELSE 0)
            /\ extraction' =
                   [fetch |-> IF ex.fetched THEN fetch ELSE NoFetch,
                    reply |-> IF ex.structured THEN reply ELSE NoReply,
                    scrape |-> ex.scrape, job_text |-> ex.job_text]
            /\ IF r.escaped THEN Crash
               ELSE IF ExtractFailed(r.result)
               THEN /\ http_error' =
                          [status |-> 500,
                           detail |-> Get(r.result, "error",
                                          <<"Failed to extract job description">>)]
                    /\ pc' = "aborted"
                    /\ UNCHANGED <<request, profile, job_data, resume_content,
                                   optimization_history, iteration, score_result,
                                   final_score_result, resume>>
               ELSE /\ job_data' = r.result
                    /\ pc' = "generate"
                    /\ UNCHANGED <<request, profile, resume_content,
                                   optimization_history, iteration, score_result,
                                   final_score_result, http_error, resume>>
    /\ UNCHANGED <<loop_scores, revisions, revision_outcomes, stopped_at>>
    /\ UNCHANGED scheduler_vars

\* for iteration in range(1, 6): the value the loop starts with
EnterLoop == LoopFirst
\* the loop is over once the range is used up
RangeDone(i) == i + 1 >= LoopStop

\* lines 72-81: the Generate stage
Generate ==
    /\ pc = "generate"
    /\ \E g \in GenOutcomes :
        LET out == GeneratorExecute([profile |-> profile, job_data |-> job_data], g)
            r == Run("Resume_Generator", out)
        IN  /\ Called("Resume_Generator", out, r)
            /\ IF r.escaped THEN Crash
               ELSE IF GenerateFailed(r.result)
               THEN /\ http_error' =
                          [status |-> 500, detail |-> <<"Failed to generate resume">>]
                    /\ pc' = "aborted"
                    /\ UNCHANGED <<request, profile, job_data, resume_content,
                                   optimization_history, iteration, score_result,
                                   final_score_result, resume>>
               ELSE /\ resume_content' = r.result["resume_content"]
                    /\ optimization_history' = <<>>
                    /\ iteration' = EnterLoop
                    /\ pc' = "score"
                    /\ UNCHANGED <<request, profile, job_data, score_result,
                                   final_score_result, http_error, resume>>
    /\ UNCHANGED <<fetches, structurings, extraction, loop_scores, revisions,
                   revision_outcomes, stopped_at>>
    /\ UNCHANGED scheduler_vars

\* a slip: the failed scorer is called again (continue without advancing)
AfterScoreRetry(result) == IF ~Succeeded(result) THEN "score" ELSE "optimize"
\* a slip: the success flag of the scorer is not looked at
AfterScoreIgnoreFailure(result) == "optimize"
\* lines 91-92: where the loop goes after a scorer call
AfterScore(result) == IF ~Succeeded(result) THEN "final_score" ELSE "optimize"

\* lines 86-94: the Score stage inside the loop
Score ==
    /\ pc = "score"
    /\ \E reply \in ScoreReplies :
        LET out == ScorerExecute([resume_content |-> resume_content,
                                  job_data |-> job_data], reply)
            r == Run("ATS_Scorer", out)
        IN  /\ Called("ATS_Scorer", out, r)
            /\ IF r.escaped THEN Crash /\ UNCHANGED <<loop_scores, stopped_at>>
               ELSE /\ score_result' = r.result
                    /\ loop_scores' =
                           Append(loop_scores,
                                  [iteration |-> iteration,
                                   artifact |-> resume_content,
                                   reply |-> reply, result |-> r.result])
                    /\ pc' = AfterScore(r.result)
                    /\ stopped_at' = IF AfterScore(r.result) = "final_score"
                                     THEN iteration ELSE stopped_at
                    /\ UNCHANGED <<request, profile, job_data, resume_content,
                                   optimization_history, iteration,
                                   final_score_result, http_error, resume>>
    /\ UNCHANGED <<fetches, structurings, extraction, revisions,
                   revision_outcomes>>
    /\ UNCHANGED scheduler_vars

\* lines 97-104: the input of the Optimize stage
OptimizerInput ==
    [resume_content |-> resume_content,
     ats_score |-> Get(score_result, "ats_score", 0),
     iteration |-> iteration,
     missing_keywords |-> Get(score_result, "missing_keywords", <<>>),
     suggestions |-> Get(score_result, "suggestions", <<>>),
     optimization_history |-> optimization_history]

\* a slip: a result without the key is read as "go on"
ShouldContinueByDefault(result) == Get(result, "should_continue", TRUE)
\* line 106: opt_result.get("should_continue")
ShouldContinue(result) == Get(result, "should_continue", FALSE)

\* lines 97-110: the Optimize stage and the end of one pass of the loop
Optimize ==
    /\ pc = "optimize"
    /\ \E g \in GenOutcomes \ {"prompt_fault"} :
        LET ex == OptimizerExecute(OptimizerInput, g)
            r == Run("Optimizer", ex.out)
        IN  /\ Called("Optimizer", ex.out, r)
            /\ revisions' = IF ex.revised THEN revisions \cup {iteration}
                            ELSE revisions
            /\ revision_outcomes' =
                   IF ex.revised
                   THEN Append(revision_outcomes,
                               [call |-> calls["Optimizer"] + 1,
                                iteration |-> iteration,
                                before |-> resume_content, outcome |-> g])
                   ELSE revision_outcomes
            /\ IF r.escaped THEN Crash /\ UNCHANGED stopped_at
               ELSE IF ~ShouldContinue(r.result)
               THEN /\ pc' = "final_score"
                    /\ stopped_at' = iteration
                    /\ UNCHANGED <<request, profile, job_data, resume_content,
                                   optimization_history, iteration, score_result,
                                   final_score_result, http_error, resume>>
               ELSE IF ~HasKey(r.result, "resume_content")
               THEN Crash /\ UNCHANGED stopped_at   \* KeyError at line 109
               ELSE /\ resume_content' = r.result["resume_content"]
                    /\ optimization_history' =
                           Get(r.result, "optimization_history", <<>>)
                    /\ IF RangeDone(iteration)
                       THEN /\ pc' = "final_score"
                            /\ stopped_at' = iteration
                            /\ UNCHANGED iteration
                       ELSE /\ pc' = "score"
                            /\ iteration' = iteration + 1
                            /\ UNCHANGED stopped_at
                    /\ UNCHANGED <<request, profile, job_data, score_result,
                                   final_score_result, http_error, resume>>
    /\ UNCHANGED <<fetches, structurings, extraction, loop_scores>>
    /\ UNCHANGED scheduler_vars

\* lines 113-116: the scorer once more, after the loop
FinalScore ==
    /\ pc = "final_score"
    /\ \E reply \in FinalScoreReplies :
        LET out == ScorerExecute([resume_content |-> resume_content,
                                  job_data |-> job_data], reply)
            r == Run("ATS_Scorer", out)
        IN  /\ Called("ATS_Scorer", out, r)
            /\ IF r.escaped THEN Crash
               ELSE /\ final_score_result' = r.result
                    /\ pc' = "save"
                    /\ UNCHANGED <<request, profile, job_data, resume_content,
                                   optimization_history, iteration, score_result,
                                   http_error, resume>>
    /\ UNCHANGED <<fetches, structurings, extraction, loop_scores, revisions,
                   revision_outcomes, stopped_at>>
    /\ UNCHANGED scheduler_vars

\* request.x or job_data.get(x)
Or(hint, dict, k) == IF hint # "" THEN hint ELSE Get(dict, k, "")

\* a slip: a failed final scoring is given the default score
FinalScoreOrDefault(result) == Get(result, "ats_score", DefaultScore)
\* line 118: final_score_result.get("ats_score", 0) if it succeeded else 0
FinalScoreOf(result) ==
    IF Succeeded(result) THEN Get(result, "ats_score", 0) ELSE 0

\* lines 118-132: the Resume row
ResumeRow ==
    [saved |-> TRUE,
     job_title |-> Or(request.job_title, job_data, "job_title"),
     company_name |-> Or(request.company_name, job_data, "company_name"),
     latex_content |-> resume_content,
     ats_score |-> FinalScoreOf(final_score_result),
     iterations |-> Len(optimization_history) + 1,
     keywords |-> Get(final_score_result, "keyword_matches", <<>>),
     optimization_history |-> optimization_history]

\* lines 118-138: the row is saved and returned
Save ==
    /\ pc = "save"
    /\ resume' = ResumeRow
    /\ pc' = "done"
    /\ UNCHANGED <<request, profile, job_data, resume_content,
                   optimization_history, iteration, score_result,
                   final_score_result, http_error, calls, failed, fetches,
                   structurings, extraction, loop_scores, revisions,
                   revision_outcomes, stopped_at, last, execution_history>>
    /\ UNCHANGED scheduler_vars

Next ==
    \/ LoadProfile
    \/ BeginFetch
    \/ Extract
    \/ Generate
    \/ Score
    \/ Optimize
    \/ FinalScore
    \/ Save

Spec == Init /\ [][Next]_vars

\* The loop reads the request and the posting only to hand them on, so the
\* specification of the loop's progress starts from a few requests.
LoopRequests ==
    {r \in Requests :
        /\ r.job_title = ""
        /\ r.job_url \in {NoUrl, Url("url", "linkedin.com", "slug")}
        /\ r.job_description \in {EmptyText, Text(0, MinJobTextLen, 0)}}
LoopInit == Init /\ request \in LoopRequests

\* One request handler runs its awaits one after the other and each await
\* returns (the fetch and the provider call are bounded by timeouts).
FairSpec == LoopInit /\ [][Next]_vars /\ WF_vars(Next)

\* ------------------------------------------------- two requests in flight
\* The handler is a coroutine: its local variables make up its frame, and
\* the event loop runs one coroutine at a time.  The agents are module-level
\* instances, so execution_history belongs to no frame.
Frame ==
    [pc |-> pc, request |-> request, profile |-> profile, job_data |-> job_data,
     resume_content |-> resume_content,
     optimization_history |-> optimization_history, iteration |-> iteration,
     score_result |-> score_result, final_score_result |-> final_score_result,
     http_error |-> http_error, resume |-> resume, calls |-> calls,
     failed |-> failed, fetches |-> fetches, structurings |-> structurings,
     extraction |-> extraction, loop_scores |-> loop_scores,
     revisions |-> revisions, revision_outcomes |-> revision_outcomes,
     stopped_at |-> stopped_at, last |-> last]

\* The awaits at which the coroutine gives up the event loop: the profile
\* query, the fetch of the URL, the commit.  The provider is called through
\* a blocking client, so the stages from Generate to the final score run
\* without a switch.
Suspended ==
    pc \in {"start", "fetching", "save", "done", "aborted", "crashed"}
Finished(frame) == frame.pc \in {"none", "done", "aborted", "crashed"}

\* the event loop resumes the other request
Switch ==
    /\ Suspended
    /\ ~Finished(parked)
    /\ current' = 3 - current
    /\ parked' = Frame
    /\ pc' = parked.pc
    /\ request' = parked.request
    /\ profile' = parked.profile
    /\ job_data' = parked.job_data
    /\ resume_content' = parked.resume_content
    /\ optimization_history' = parked.optimization_history
    /\ iteration' = parked.iteration
    /\ score_result' = parked.score_result
    /\ final_score_result' = parked.final_score_result
    /\ http_error' = parked.http_error
    /\ resume' = parked.resume
    /\ calls' = parked.calls
    /\ failed' = parked.failed
    /\ fetches' = parked.fetches
    /\ structurings' = parked.structurings
    /\ extraction' = parked.extraction
    /\ loop_scores' = parked.loop_scores
    /\ revisions' = parked.revisions
    /\ revision_outcomes' = parked.revision_outcomes
    /\ stopped_at' = parked.stopped_at
    /\ last' = parked.last
    /\ UNCHANGED execution_history

\* Two requests in flight at once: one that can go through every stage (its
\* URL is fetched, so it can be suspended inside Extract) and one that the
\* Extract stage turns down (its text is whitespace only), so that both
\* write the log of the JD_Extractor instance.
FirstRequest ==
    [job_url |-> Url("url", "linkedin.com", "slug"),
     job_description |-> EmptyText, job_title |-> "", company_name |-> ""]
SecondRequest ==
    [job_url |-> NoUrl, job_description |-> Text(MaxPad, 0, MaxPad),
     job_title |-> "", company_name |-> ""]
\* the frame of a request whose handler has just been entered
StartFrame(req) ==
    [pc |-> "start", request |-> req, profile |-> EmptyDict,
     job_data |-> NoResult, resume_content |-> NoArtifact,
     optimization_history |-> <<>>, iteration |-> 0, score_result |-> NoResult,
     final_score_result |-> NoResult, http_error |-> NoError,
     resume |-> NoResume, calls |-> [s \in Stages |-> 0], failed |-> {},
     fetches |-> 0, structurings |-> 0, extraction |-> NoExtraction,
     loop_scores |-> <<>>, revisions |-> {}, revision_outcomes |-> <<>>,
     stopped_at |-> 0, last |-> NoExec]
PairInit ==
    /\ RunStart
    /\ request = FirstRequest
    /\ execution_history = [s \in Stages |-> <<>>]
    /\ current = 1
    /\ parked = StartFrame(SecondRequest)
PairNext == Next \/ Switch
PairSpec == PairInit /\ [][PairNext]_vars

\* ================================================================ claims
LoopLeft == pc \in {"final_score", "save", "done"}
InLoop == pc \in {"score", "optimize"}
\* the in-loop scorer calls that succeeded with a score at or above the target
AtTarget(e) == e.result["success"] /\ e.result["ats_score"] >= ATS_TARGET_SCORE
BelowTarget(e) == e.result["success"] /\ e.result["ats_score"] < ATS_TARGET_SCORE
LastScore == loop_scores[Len(loop_scores)]

\* C1: every saved run has iterations <= MAX_OPTIMIZATION_ITERATIONS, and a
\* run whose in-loop scorings all succeed below the target leaves the loop
\* after exactly 5 scorer calls and at most 4 revision calls.
C1_FiveScoringsFourRevisions ==
    /\ pc = "done" => resume.iterations <= MAX_OPTIMIZATION_ITERATIONS
    /\ (LoopLeft /\ \A i \in 1..Len(loop_scores) : BelowTarget(loop_scores[i]))
        => /\ Len(loop_scores) = MAX_OPTIMIZATION_ITERATIONS
           /\ Cardinality(revisions) <= MAX_OPTIMIZATION_ITERATIONS - 1

\* C2: a scorer call that returns a score >= the target at iteration i is the
\* last one of the loop: the loop is left at iteration i, optimize_resume is
\* not called at iteration i, the Optimizer reports total_iterations = i and
\* the saved row has iterations = i.
C2_StopsAtTarget ==
    \A k \in 1..Len(loop_scores) :
        AtTarget(loop_scores[k]) =>
            LET i == loop_scores[k].iteration
            IN  /\ k = Len(loop_scores)
                /\ \A j \in 1..(k - 1) : ~AtTarget(loop_scores[j])
                /\ pc # "score"
                /\ iteration = i
                /\ i \notin revisions
                /\ LoopLeft => /\ stopped_at = i
                               /\ "Optimizer" \notin failed
                /\ (pc = "final_score" /\ last.agent = "Optimizer")
                       => /\ last.result["should_continue"] = FALSE
                          /\ last.result["total_iterations"] = i
                /\ pc = "done" => resume.iterations = i
C2_Witness ==
    /\ pc = "done"
    /\ Len(loop_scores) >= 1
    /\ AtTarget(LastScore)
    /\ LastScore.result["ats_score"] = ATS_TARGET_SCORE
    /\ resume.iterations = LastScore.iteration
    /\ revisions = {}

\* C3: a run that is in the Score/Optimize loop eventually leaves it and
\* ends with its row saved, whatever the scorer and the provider return.
C3_LoopTerminates == InLoop ~> pc = "done"
C3_Witness ==
    /\ pc = "done"
    /\ Len(loop_scores) >= 1
    /\ BelowTarget(LastScore)
    /\ revisions # {}

\* C4: when the scorer fails at iteration i the loop is left at once:
\* optimize_resume is not called at i, the request is not aborted, the
\* artifact stays the one that was being scored and the saved row has that
\* artifact and iterations = i.
C4_ScoringFailureStopsLoop ==
    \A k \in 1..Len(loop_scores) :
        ~loop_scores[k].result["success"] =>
            LET i == loop_scores[k].iteration
            IN  /\ k = Len(loop_scores)
                /\ LoopLeft
                /\ stopped_at = i
                /\ i \notin revisions
                /\ calls["Optimizer"] = i - 1
                /\ http_error = NoError
                /\ resume_content = loop_scores[k].artifact
                /\ i = 1 => resume_content.rev = 0
                /\ pc = "done" => /\ resume.latex_content = loop_scores[k].artifact
                                  /\ resume.iterations = i
C4_Witness ==
    /\ pc = "done"
    /\ Len(loop_scores) = 1
    /\ ~LastScore.result["success"]
    /\ resume.iterations = 1
    /\ resume.latex_content = loop_scores[1].artifact

\* C5: a run whose first in-loop scoring returns 60 and whose every later
\* scoring returns 90 ends with iterations = 2, ats_score = 90 and an
\* optimization history of 2 records.
C5_SixtyThenNinety ==
    ( /\ pc = "done"
      /\ loop_scores[1].result["success"]
      /\ loop_scores[1].result["ats_score"] = 60
      /\ \A k \in 2..Len(loop_scores) :
            /\ loop_scores[k].result["success"]
            /\ loop_scores[k].result["ats_score"] = 90
      /\ Succeeded(final_score_result)
      /\ final_score_result["ats_score"] = 90 )
    => /\ resume.iterations = 2
       /\ resume.ats_score = 90
       /\ Len(resume.optimization_history) = 2

\* C6 as stated: when Extract or Generate fails the request is aborted with
\* that stage's error as the detail of the HTTP error, no later stage is
\* called and no artifact or row exists.
C6_AbortSurfacesStageError ==
    \A s \in {"JD_Extractor", "Resume_Generator"} :
        s \in failed =>
            /\ pc = "aborted"
            /\ last.agent = s
            /\ http_error.status = 500
            /\ http_error.detail = last.result["error"]
            /\ calls["ATS_Scorer"] = 0 /\ calls["Optimizer"] = 0
            /\ resume_content = NoArtifact
            /\ resume = NoResume

\* C6 as amended: Generate is called only after Extract succeeded; a failed
\* Extract aborts with the Extract stage's error as the detail, a failed
\* Generate aborts with the fixed detail "Failed to generate resume"; in
\* both cases no later stage is called and no artifact or row exists.
C6_AbortOnExtractOrGenerateFailure ==
    /\ calls["Resume_Generator"] > 0 =>
           calls["JD_Extractor"] = 1 /\ "JD_Extractor" \notin failed
    /\ "JD_Extractor" \in failed =>
           /\ pc = "aborted"
           /\ last.agent = "JD_Extractor"
           /\ http_error = [status |-> 500, detail |-> last.result["error"]]
           /\ calls["Resume_Generator"] = 0
           /\ calls["ATS_Scorer"] = 0 /\ calls["Optimizer"] = 0
           /\ job_data = NoResult
           /\ resume_content = NoArtifact
           /\ resume = NoResume
    /\ "Resume_Generator" \in failed =>
           /\ pc = "aborted"
           /\ last.agent = "Resume_Generator"
           /\ http_error =
                  [status |-> 500, detail |-> <<"Failed to generate resume">>]
           /\ calls["ATS_Scorer"] = 0 /\ calls["Optimizer"] = 0
           /\ resume_content = NoArtifact
           /\ resume = NoResume
C6_Witness ==
    /\ pc = "aborted"
    /\ "Resume_Generator" \in failed
    /\ last.result["error"] # http_error.detail
    /\ calls["ATS_Scorer"] = 0
    /\ resume = NoResume

\* C7 as stated: once a stage has returned success = False, run is not
\* called on that stage again in the request.
C7_NoStageCalledAgain ==
    [][\A s \in Stages : s \in failed => calls'[s] = calls[s]]_vars

\* C7 as amended: once the extractor, the generator or the optimizer has
\* returned success = False it is not called again; after a failed scorer
\* call the scorer is called again only for the score after the loop, never
\* inside the loop.
C7_NoRetryButFinalScore ==
    [][/\ \A s \in Stages \ {"ATS_Scorer"} : s \in failed => calls'[s] = calls[s]
       /\ ("ATS_Scorer" \in failed /\ calls'["ATS_Scorer"] # calls["ATS_Scorer"])
              => /\ pc = "final_score"
                 /\ pc' = "save"
                 /\ calls'["ATS_Scorer"] = calls["ATS_Scorer"] + 1]_vars
C7_Witness ==
    /\ pc = "done"
    /\ ~loop_scores[1].result["success"]
    /\ calls["ATS_Scorer"] = 2
    /\ failed = {"ATS_Scorer"}

\* C8: BaseAgent.run returns for every outcome of execute: when execute
\* raised, a dict with success = False, the message, the exception class,
\* the agent's name and the elapsed time; when execute returned, its dict
\* with success = True, the agent's name and the elapsed time added.
C8_RunNeverRaises ==
    /\ pc # "crashed"
    /\ last.agent # "" =>
        /\ ~last.escaped
        /\ last.result["agent_name"] = last.agent
        /\ HasKey(last.result, "execution_time")
        /\ IF last.out.raised
           THEN /\ last.result["success"] = FALSE
                /\ last.result["error"] = last.out.msg
                /\ last.result["error_type"] = last.out.etype
           ELSE /\ last.result["success"] = TRUE
                /\ \A k \in DOMAIN last.out.value
                           \ {"agent_name", "execution_time", "success"} :
                       HasKey(last.result, k) /\ last.result[k] = last.out.value[k]
C8_Witness ==
    /\ last.agent = "Optimizer"
    /\ last.out.raised
    /\ last.out.etype = "TypeError"
    /\ last.result["success"] = FALSE
    /\ last.result["error_type"] = "TypeError"
    /\ pc = "final_score"

\* C9: a request without a URL (none, or whitespace only) whose pasted text
\* is absent or shorter than 20 characters once stripped makes the Extract
\* stage fail with the no-job-description error: success = False, the
\* structuring is not called, nothing is fetched and there is no posting.
C9_InsufficientInput ==
    ( /\ calls["JD_Extractor"] = 1
      /\ request.job_url.kind \in {"empty", "blank"}
      /\ request.job_description.core < MinJobTextLen )
    => /\ pc = "aborted"
       /\ last.agent = "JD_Extractor"
       /\ last.result["success"] = FALSE
       /\ last.result["error"] = ErrNoJobDescription
       /\ last.result["error_type"] = "ValueError"
       /\ http_error = [status |-> 500, detail |-> ErrNoJobDescription]
       /\ structurings = 0
       /\ fetches = 0
       /\ job_data = NoResult
C9_Witness ==
    /\ pc = "aborted"
    /\ calls["JD_Extractor"] = 1
    /\ request.job_url = NoUrl
    /\ request.job_description.core = MinJobTextLen - 1
    /\ TextLen(request.job_description) >= MinJobTextLen
    /\ structurings = 0

\* C10 as stated: a request whose pasted text has 20 characters or more
\* never makes the extractor fetch, whatever the URL.
C10_PastedTextNeverFetches ==
    (calls["JD_Extractor"] = 1 /\ request.job_description.core >= MinJobTextLen)
        => fetches = 0

\* C10 as amended: a request whose pasted text has 20 characters or more
\* makes the extractor fetch exactly when a URL is given: no fetch without
\* a URL (none, or whitespace only), one fetch with one.
C10_PastedTextFetchesOnlyForUrl ==
    (calls["JD_Extractor"] = 1 /\ request.job_description.core >= MinJobTextLen)
        => fetches = IF request.job_url.kind = "url" THEN 1 ELSE 0
C10_Witness ==
    /\ pc = "generate"
    /\ request.job_description.core >= MinJobTextLen
    /\ request.job_url = BlankUrl
    /\ fetches = 0
    /\ structurings = 1

\* ------------------------------------------------ resolution of the posting
Extracted == calls["JD_Extractor"] = 1
Resolved == Extracted /\ "JD_Extractor" \notin failed /\ Succeeded(job_data)
ResolutionFailed == Extracted /\ "JD_Extractor" \in failed
UrlOnly ==
    /\ request.job_url.kind = "url"
    /\ request.job_description = EmptyText
    /\ request.job_title = ""
    /\ request.company_name = ""
FetchFailed == extraction.fetch.kind \in {"exception", "status"}

\* C11: a request with only a URL of the slug shape on linkedin.com whose
\* fetch returns a status other than 200 is resolved with success: the
\* scraper returns the placeholder text spelling the title and the company
\* read off the URL, and the posting carries them.
C11_PlaceholderFromSlug ==
    ( /\ Extracted
      /\ UrlOnly
      /\ request.job_url = Url("url", "linkedin.com", "slug")
      /\ extraction.fetch.kind = "status" )
    => /\ Resolved
       /\ extraction.scrape.success
       /\ extraction.scrape.source = "url_parsed"
       /\ extraction.job_text.src = "placeholder"
       /\ extraction.job_text.title = "UrlTitle"
       /\ extraction.job_text.company = "UrlCompany"
       /\ job_data["job_title"] = "UrlTitle"
       /\ job_data["company_name"] = "UrlCompany"
C11_Witness ==
    /\ pc = "generate"
    /\ UrlOnly
    /\ request.job_url = Url("url", "linkedin.com", "slug")
    /\ extraction.fetch.kind = "status"
    /\ extraction.job_text.title = "UrlTitle"
    /\ job_data["success"]

\* the page gave a text too thin to go on with
ThinPage ==
    extraction.fetch.kind = "page" /\ extraction.fetch.len < MinJobTextLen

\* C12 as stated: with a URL given, a failed fetch, a status other than 200
\* or a thin text never makes resolution fail, on any host.
C12_UrlNeverFailsHard ==
    (Extracted /\ request.job_url.kind = "url" /\ (FetchFailed \/ ThinPage))
        => Resolved

\* C12 as amended: with a URL given, resolution fails exactly in these
\* cases.  On linkedin.com never (a failed fetch, a status other than 200 and
\* a text under 50 characters all give the placeholder).  On indeed.com and
\* glassdoor.com when the page gives a text of 1 to 19 characters (a failed
\* fetch, a status other than 200 and an empty text give the placeholder).
\* On any other host when the fetch fails, the status is not 200 or the text
\* has fewer than 20 characters: there is no placeholder for such a URL.
C12_UrlFailsHardExactlyWhen ==
    (Extracted /\ request.job_url.kind = "url")
        => ( ResolutionFailed <=>
               \/ /\ request.job_url.host \in {"indeed.com", "glassdoor.com"}
                  /\ ThinPage
                  /\ extraction.fetch.len > 0
               \/ /\ request.job_url.host
                        \notin {"linkedin.com", "indeed.com", "glassdoor.com"}
                  /\ (FetchFailed \/ ThinPage) )
C12_Witness ==
    /\ pc = "generate"
    /\ request.job_url = Url("url", "glassdoor.com", "other")
    /\ extraction.fetch.kind = "exception"
    /\ extraction.job_text.src = "placeholder"
    /\ Resolved

\* C13: a request whose pasted text has 20 characters or more besides
\* whitespace is resolved, whatever the URL and whatever the fetch gave.
C13_PastedTextAlwaysResolves ==
    (Extracted /\ request.job_description.core >= MinJobTextLen) => Resolved

\* C14: in the posting the structuring returns, a field the provider's JSON
\* object holds with a non-empty value has that value, and a field it lacks
\* or holds empty has the default (title and company where nothing given
\* with the request or scraped replaced them afterwards).
C14_MergeKeepsDefaults ==
    (Resolved /\ extraction.reply.kind = "json_object")
    => LET response == extraction.reply.json
           default == DefaultResult(extraction.job_text)
           replaced ==
               {k \in {"job_title"} : request.job_title # ""
                                      \/ extraction.scrape.title # ""}
               \cup {k \in {"company_name"} : request.company_name # ""
                                              \/ extraction.scrape.company # ""}
       IN  \A k \in DOMAIN default \ replaced :
              job_data[k] = IF k \in DOMAIN response /\ Truthy(k, response[k])
                            THEN response[k] ELSE default[k]
C14_Witness ==
    /\ pc = "generate"
    /\ extraction.reply.kind = "json_object"
    /\ "requirements" \notin DOMAIN extraction.reply.json
    /\ job_data["requirements"] = <<>>
    /\ job_data["skills_required"] = <<"Go", "SQL", "Docker">>
    /\ job_data["job_title"] = "Position"
    /\ job_data["job_description"].src = "pasted"

\* C15: a title or a company given with the request is the job_title or
\* the company_name of the resolved posting, whatever was scraped and
\* whatever the structuring returned.
C15_HintsOverride ==
    Resolved =>
        /\ request.job_title # "" => job_data["job_title"] = request.job_title
        /\ request.company_name # ""
               => job_data["company_name"] = request.company_name
C15_Witness ==
    /\ pc = "generate"
    /\ request.job_title = "HintTitle"
    /\ request.company_name = "HintCompany"
    /\ extraction.scrape.title = "ScrapedTitle"
    /\ extraction.reply.kind = "json_object"
    /\ HasKey(extraction.reply.json, "company_name")
    /\ job_data["job_title"] = "HintTitle"
    /\ job_data["company_name"] = "HintCompany"

\* C16: the description of a resolved posting is never empty.
C16_DescriptionNotEmpty ==
    Resolved => TextLen(job_data["job_description"]) > 0
C16_Witness ==
    /\ pc = "generate"
    /\ extraction.reply.kind = "api_error"
    /\ extraction.fetch.kind = "page"
    /\ job_data["job_description"].src = "scraped"
    /\ TextLen(job_data["job_description"]) > 0

\* --------------------------------------------------- the optimization loop
LastRevision == revision_outcomes[Len(revision_outcomes)]
\* the Optimizer was the last stage called and it called optimize_resume
JustRevised ==
    /\ last.agent = "Optimizer"
    /\ revision_outcomes # <<>>
    /\ LastRevision.call = calls["Optimizer"]

\* C18: a pass of the loop whose score is below the target, at an iteration
\* below the cap, calls optimize_resume with the current artifact and goes
\* on to the next iteration, where the artifact is scored again: the loop is
\* never left after such a pass, and the scorer calls are at iterations 1,
\* 2, 3, ... each one after a revision of the iteration before.
C18_RevisionThenRescore ==
    /\ \A k \in 1..Len(loop_scores) :
          /\ loop_scores[k].iteration = k
          /\ k > 1 => (k - 1) \in revisions
    /\ JustRevised =>
          /\ LastRevision.before = LastScore.artifact
          /\ pc = "score"
          /\ iteration = LastRevision.iteration + 1
    /\ (LoopLeft /\ loop_scores # <<>> /\ BelowTarget(LastScore))
          => LastScore.iteration >= MAX_OPTIMIZATION_ITERATIONS

\* C19: after a call of optimize_resume in which the provider failed or
\* gave a text without the preamble, the run holds the artifact it held
\* before, the loop is at the next iteration and the history ends with the
\* record of the iteration just done.
C19_InvalidRevisionDiscarded ==
    (JustRevised /\ LastRevision.outcome \in {"api_error", "malformed"})
    => /\ resume_content = LastRevision.before
       /\ pc = "score"
       /\ iteration = LastRevision.iteration + 1
       /\ optimization_history # <<>>
       /\ optimization_history[Len(optimization_history)].iteration
              = LastRevision.iteration

\* C20: once Generate has succeeded the artifact of the run starts with the
\* preamble, in every state up to the saved row.
C20_ArtifactWellFormed ==
    /\ pc \in {"score", "optimize", "final_score", "save", "done"}
          => resume_content # NoArtifact /\ resume_content.preamble
    /\ \A k \in 1..Len(loop_scores) : loop_scores[k].artifact.preamble
    /\ resume.saved => resume.latex_content.preamble
C20_Witness ==
    /\ pc = "done"
    /\ resume.latex_content = TemplateArtifact
    /\ revision_outcomes # <<>>
    /\ LastRevision.outcome = "malformed"

\* ------------------------------------------------- two requests in flight
\* the requests that wrote the log of an agent
Writers(agent) ==
    {execution_history[agent][i].run : i \in DOMAIN execution_history[agent]}
\* h2 is h1 with entries of request run added at its end
AppendedBy(h1, h2, run) ==
    /\ Len(h2) >= Len(h1)
    /\ SubSeq(h2, 1, Len(h1)) = h1
    /\ \A i \in (Len(h1) + 1)..Len(h2) : h2[i].run = run

\* C17 as stated: no piece of state is written on behalf of two requests.
C17_NoSharedWrites ==
    \A agent \in Stages : Cardinality(Writers(agent)) <= 1

\* C17 as amended: a step of the running request leaves the frame of the
\* other request alone (its posting, its artifact, its history and the rest
\* of its locals), and the only state both requests write is the execution
\* log of the agent instances, to which a step only adds entries of the
\* running request; a switch of the event loop changes neither.
C17_OnlyExecutionLogShared ==
    [][ IF current' = current
        THEN /\ parked' = parked
             /\ \A agent \in Stages :
                    AppendedBy(execution_history[agent],
                               execution_history'[agent], current)
        ELSE /\ parked' = Frame
             /\ Frame' = parked
             /\ execution_history' = execution_history ]_vars
C17_Witness ==
    /\ current = 1
    /\ pc = "done"
    /\ resume.saved
    /\ resume_content # NoArtifact
    /\ parked.pc = "aborted"
    /\ parked.failed = {"JD_Extractor"}
    /\ parked.job_data = NoResult
    /\ Writers("JD_Extractor") = {1, 2}
    /\ Writers("Resume_Generator") = {1}
    /\ execution_history["JD_Extractor"] =
           << [status |-> "START", run |-> 1], [status |-> "START", run |-> 2],
              [status |-> "ERROR", run |-> 2], [status |-> "SUCCESS", run |-> 1] >>

\* ------------------------------------------------------- the score reported
\* the in-loop scorer calls that succeeded
GoodScores == {k \in 1..Len(loop_scores) : loop_scores[k].result["success"]}
LastGoodScore == loop_scores[CHOOSE k \in GoodScores : \A j \in GoodScores : j <= k]

\* C21 as stated: the score saved with the run is the score of the last
\* in-loop scorer call that succeeded.
C21_FinalScoreIsLoopScore ==
    (pc = "done" /\ GoodScores # {})
        => resume.ats_score = LastGoodScore.result["ats_score"]

\* C21 as amended: after the loop the scorer is called once more on the
\* artifact the run ends with, and the score saved is the score of that
\* call, or 0 if that call failed; the scores of the in-loop calls are not
\* saved.
C21_FinalScoreIsRescored ==
    /\ pc \in {"save", "done"} =>
          /\ calls["ATS_Scorer"] = Len(loop_scores) + 1
          /\ last.agent = "ATS_Scorer"
          /\ last.result = final_score_result
    /\ pc = "done" =>
          /\ resume.latex_content = resume_content
          /\ resume.ats_score =
                 IF final_score_result["success"]
                 THEN final_score_result["ats_score"] ELSE 0
C21_Witness ==
    /\ pc = "done"
    /\ GoodScores # {}
    /\ LastGoodScore.result["ats_score"] = 90
    /\ stopped_at = 1
    /\ final_score_result["success"]
    /\ resume.ats_score = 60

\* C22: every score the scorer stage returns to the loop is in 0..100, and
\* a numeric score of the provider comes back clamped to that range.
C22_ScoresClamped ==
    /\ Succeeded(score_result) =>
          /\ score_result["ats_score"] >= 0
          /\ score_result["ats_score"] <= 100
          /\ OptimizerInput.ats_score = score_result["ats_score"]
    /\ \A k \in GoodScores :
          LET e == loop_scores[k]
          IN  (e.reply.kind = "json_object" /\ HasKey(e.reply.json, "ats_score"))
              => LET n == e.reply.json["ats_score"].n
                 IN  e.result["ats_score"] =
                         IF n < 0 THEN 0 ELSE IF n > 100 THEN 100 ELSE n
C22_Witness ==
    /\ Len(loop_scores) = 1
    /\ loop_scores[1].reply = Reply("json_object", ScoreJson(ScoreVal(-5)))
    /\ score_result["ats_score"] = 0
    /\ pc = "optimize"

\* --------------------------------------------- the provider's JSON replies
\* the keys BaseAgent.run adds to what execute returns
EnvelopeKeys == {"agent_name", "execution_time", "success"}
NoUsableObject ==
    extraction.reply.kind \in {"api_error", "invalid_json", "json_other"}
NothingReplaced ==
    /\ request.job_title = "" /\ extraction.scrape.title = ""
    /\ request.company_name = "" /\ extraction.scrape.company = ""

\* C23: when the structuring call gives no usable object, the resolved
\* posting is the default built from the raw text alone: the fields of the
\* default and no other, title "Position", company "Company", description
\* the first 1000 characters of the text, the lists empty.
C23_DefaultPostingOnly ==
    (Resolved /\ NoUsableObject /\ NothingReplaced)
    => /\ DOMAIN job_data \ EnvelopeKeys =
              {"job_title", "company_name", "job_description", "requirements",
               "responsibilities", "skills_required", "preferred_skills",
               "experience_level", "keywords"}
       /\ job_data["job_title"] = "Position"
       /\ job_data["company_name"] = "Company"
       /\ job_data["job_description"] = Prefix(extraction.job_text, DescriptionLimit)
       /\ job_data["requirements"] = <<>>
       /\ job_data["responsibilities"] = <<>>
       /\ job_data["skills_required"] = <<>>
       /\ job_data["preferred_skills"] = <<>>
       /\ job_data["keywords"] = <<>>

\* C24: extract_json never raises, and whenever the provider gave no JSON
\* object its result is an error payload: with "error" when the call failed,
\* with "error" and "raw_response" when the reply is not a JSON object.  The
\* payload is seen in the posting, into which the structuring merges it, and
\* in the scorer, which fails on a result that is no dict.
C24_ErrorPayload ==
    /\ Resolved =>
          /\ extraction.reply.kind = "api_error" => HasKey(job_data, "error")
          /\ extraction.reply.kind \in {"invalid_json", "json_other"}
                 => HasKey(job_data, "error") /\ HasKey(job_data, "raw_response")
    /\ \A k \in 1..Len(loop_scores) :
          loop_scores[k].reply.kind \in {"api_error", "invalid_json", "json_other"}
              => loop_scores[k].result["success"]

\* ------------------------------------------------------- the site parsers
Fetched == Extracted /\ fetches = 1
\* the result of the scraper is what a site parser returned as a success
SiteSuccess ==
    /\ extraction.scrape.success
    /\ extraction.scrape.source \in {"linkedin", "indeed", "glassdoor", "generic"}
KnownHost == request.job_url.host \in {"linkedin.com", "indeed.com", "glassdoor.com"}

\* C25 as stated: on every host the site parser's result is a success
\* exactly when the page was fetched and its cleaned text has 100 characters
\* or more; anything else gets the placeholder of the URL-pattern fallback.
C25_HundredCharacters ==
    Fetched =>
        /\ SiteSuccess <=> (extraction.fetch.kind = "page" /\ extraction.fetch.len >= 100)
        /\ ~SiteSuccess => /\ extraction.scrape.success
                           /\ extraction.scrape.source = "url_parsed"

\* C25 as amended: the site parser's result is a success exactly when the
\* page was fetched and its cleaned text has 50 characters or more on
\* linkedin.com, 1 character or more on indeed.com, glassdoor.com and any
\* other host; anything else gets the placeholder on the three named hosts
\* and is a failure of the scraper on any other host.
C25_SiteThresholds ==
    Fetched =>
        /\ SiteSuccess <=>
              /\ extraction.fetch.kind = "page"
              /\ extraction.fetch.len >=
                     (IF request.job_url.host = "linkedin.com"
                      THEN LinkedInMinLen ELSE 1)
        /\ ~SiteSuccess =>
              IF KnownHost
              THEN /\ extraction.scrape.success
                   /\ extraction.scrape.source = "url_parsed"
                   /\ extraction.job_text.src = "placeholder"
              ELSE ~extraction.scrape.success
C25_Witness ==
    /\ Fetched
    /\ request.job_url.host = "indeed.com"
    /\ extraction.fetch.kind = "page"
    /\ extraction.fetch.len = MinJobTextLen - 1
    /\ extraction.scrape.success
    /\ extraction.scrape.source = "indeed"
    /\ ResolutionFailed

\* ------------------------------------------------- the optimization history
\* C26: the history grows by one record at each revision step and by
\* nothing else: after k calls of optimize_resume it holds k records, the
\* k-th with iteration k and the score the scorer gave at iteration k.
C26_HistoryOfRevisions ==
    /\ Len(optimization_history) = Len(revision_outcomes)
    /\ \A k \in 1..Len(optimization_history) :
          /\ optimization_history[k].iteration = k
          /\ k <= Len(loop_scores)
          /\ optimization_history[k].score = loop_scores[k].result["ats_score"]

\* ------------------------------------------------ a failed Optimize stage
OptimizeFailed == "Optimizer" \in failed

\* C27: once the Optimize stage has returned success = FALSE (an envelope
\* without should_continue), the loop was left at that iteration with no
\* error for the caller, the run holds the artifact that was scored at that
\* iteration and the history it had, the final scoring follows and the row
\* is saved with that artifact and history.
C27_OptimizeFailureEndsLoop ==
    OptimizeFailed =>
        /\ last.agent = "Optimizer" => /\ ~last.escaped
                                       /\ ~HasKey(last.result, "should_continue")
                                       /\ pc = "final_score"
        /\ LoopLeft
        /\ http_error = NoError
        /\ stopped_at = LastScore.iteration
        /\ iteration = stopped_at
        /\ resume_content = LastScore.artifact
        /\ Len(loop_scores) = calls["Optimizer"]
        /\ Len(optimization_history) = calls["Optimizer"] - 1
        /\ pc \in {"save", "done"} => calls["ATS_Scorer"] = Len(loop_scores) + 1
        /\ pc = "done" => /\ resume # NoResume
                          /\ resume.latex_content = LastScore.artifact
                          /\ resume.optimization_history = optimization_history
C27_Witness ==
    /\ OptimizeFailed
    /\ pc = "done"
    /\ resume # NoResume
    /\ last.agent = "ATS_Scorer"
    /\ calls["ATS_Scorer"] = 2

\* ------------------------------------------------- a scoring call gone wrong
\* the provider call failed, or its reply cannot be parsed as the score
\* object, or the object has no ats_score
NoScoreIn(reply) ==
    \/ reply.kind \in {"api_error", "invalid_json", "json_other"}
    \/ reply.kind = "json_object" /\ ~HasKey(reply.json, "ats_score")

\* the list a reply carries under key k, empty when it carries none
Carried(reply, k) ==
    IF reply.kind = "json_object" THEN Get(reply.json, k, <<>>) ELSE <<>>

\* C28: an in-loop scorer call whose provider call failed, or whose reply is
\* unparsable or has no score, succeeds with ats_score = 50 and with no
\* keyword_matches, missing_keywords and suggestions but those the reply
\* itself carried (none when there is no object to carry them), and the
\* loop goes on to the Optimize stage.
C28_ScoringFallback ==
    \A k \in 1..Len(loop_scores) :
        NoScoreIn(loop_scores[k].reply) =>
            /\ loop_scores[k].result["success"]
            /\ Get(loop_scores[k].result, "ats_score", 0) = DefaultScore
            /\ \A key \in {"keyword_matches", "missing_keywords", "suggestions"} :
                  Get(loop_scores[k].result, key, <<>>)
                      = Carried(loop_scores[k].reply, key)
            /\ (k = Len(loop_scores) /\ last.agent = "ATS_Scorer" /\ InLoop)
                   => pc = "optimize"

\* -------------------------------------------------- hint, scraped, structured
\* what the structuring gave for a field of the text the run went on with
StructuredField(key) ==
    StructureJobData(extraction.job_text, extraction.reply)[key]
\* what the scraper gave for it, "" without a fetch
ScrapedField(key) ==
    IF fetches = 0 THEN ""
    ELSE IF key = "job_title" THEN extraction.scrape.title
    ELSE extraction.scrape.company
HintField(key) ==
    IF key = "job_title" THEN request.job_title ELSE request.company_name

\* C29: in a resolved posting the title and the company are the hint where
\* one is given, else what the scraper found where the fetch was a success
\* and found one, else what the structuring returned.
C29_HintScrapedStructured ==
    Resolved =>
        \A key \in {"job_title", "company_name"} :
            job_data[key] =
                IF HintField(key) # "" THEN HintField(key)
                ELSE IF ScrapedField(key) # "" THEN ScrapedField(key)
                ELSE StructuredField(key)
C29_Witness ==
    /\ Resolved
    /\ fetches = 1
    /\ request.job_title = ""
    /\ request.company_name = ""
    /\ extraction.scrape.success
    /\ extraction.scrape.title = "ScrapedTitle"
    /\ extraction.scrape.company = ""
    /\ StructuredField("job_title") = "LlmTitle"
    /\ StructuredField("company_name") = "LlmCompany"
    /\ job_data["job_title"] = "ScrapedTitle"
    /\ job_data["company_name"] = "LlmCompany"

\* ----------------------------------------------------- the execution log
\* the calls of agent.run that returned, over the requests in flight
Completed(agent) ==
    calls[agent] + (IF parked = NoFrame THEN 0 ELSE parked.calls[agent])
\* the calls of agent.run that wrote START and are suspended in execute
InFlight(agent) ==
    IF agent # "JD_Extractor" THEN 0
    ELSE (IF pc = "fetching" THEN 1 ELSE 0)
         + (IF parked # NoFrame /\ parked.pc = "fetching" THEN 1 ELSE 0)
\* the entries an agent's log holds of one request, in the log's order
EntriesOf(agent, run) ==
    SelectSeq(execution_history[agent], LAMBDA e : e.run = run)
CallsOf(agent, run) ==
    IF run = current THEN calls[agent]
    ELSE IF parked = NoFrame THEN 0 ELSE parked.calls[agent]

\* C30: an agent's log holds two entries for every call of run that
\* returned and one for a call suspended in execute; the entries of one
\* request are START, then SUCCESS or ERROR, then START, ... in turn, and
\* the entry after the START of the last call says how that call ended.
C30_TwoEntriesPerCall ==
    \A agent \in Stages :
        /\ Len(execution_history[agent]) = 2 * Completed(agent) + InFlight(agent)
        /\ \A run \in {1, 2} :
              /\ Len(EntriesOf(agent, run)) \in
                     {2 * CallsOf(agent, run), 2 * CallsOf(agent, run) + 1}
              /\ \A i \in 1..Len(EntriesOf(agent, run)) :
                     IF i % 2 = 1
                     THEN EntriesOf(agent, run)[i].status = "START"
                     ELSE EntriesOf(agent, run)[i].status \in {"SUCCESS", "ERROR"}
        /\ (last.agent = agent /\ ~last.escaped)
              => EntriesOf(agent, current)[2 * calls[agent]].status
                     = IF last.result["success"] THEN "SUCCESS" ELSE "ERROR"
C30_Witness ==
    /\ pc = "done"
    /\ current = 1
    /\ parked.pc = "aborted"
    /\ calls["ATS_Scorer"] = 2
    /\ execution_history["ATS_Scorer"] =
           << [status |-> "START", run |-> 1], [status |-> "SUCCESS", run |-> 1],
              [status |-> "START", run |-> 1], [status |-> "ERROR", run |-> 1] >>
    /\ Len(execution_history["JD_Extractor"]) = 4
    /\ Len(execution_history["Optimizer"]) = 2

====
